---- MODULE Spec2Model ----
(***************************************************************************)
(* Model of maintenance/yara/yara_from_bang.py: the dispatcher (main), the *)
(* worker loop (process_directory), the identifier extraction done inside  *)
(* the worker loop, and the rule writer (generate_yara).                   *)
(*                                                                         *)
(* Text values (file names, identifiers, strings) are sequences of         *)
(* one-character strings, so that len(), rsplit(), startswith(),           *)
(* translate() and the '%s-%s.yara' formatting are computed as the code    *)
(* computes them.                                                          *)
(***************************************************************************)
EXTENDS Integers, Sequences, FiniteSets, TLC

(***************************************************************************)
(* Bounds of the model.                                                    *)
(***************************************************************************)
\* longest enumerated identifier name
MaxNameLen == 2
\* most table entries (symbols, methods, fields) fed to one artifact
MaxEntries == 2
\* most sub-directories of the result directory
MaxDirs == 2
\* largest configured worker count
MaxThreads == 2
\* largest configured identifier_cutoff
MaxCutoff == 2

(***************************************************************************)
(* Text helpers.                                                           *)
(***************************************************************************)
Max(a, b) == IF a >= b THEN a ELSE b

\* all sequences over S of length 0..n
RECURSIVE SeqsUpTo(_, _)
SeqsUpTo(S, n) ==
    IF n = 0 THEN { <<>> }
    ELSE LET shorter == SeqsUpTo(S, n - 1)
         IN  shorter \cup { Append(s, c) : s \in { t \in shorter : Len(t) = n - 1 }, c \in S }

\* sub starts at index i of s
MatchAt(s, sub, i) ==
    /\ i >= 1
    /\ i + Len(sub) - 1 <= Len(s)
    /\ \A k \in 1..Len(sub) : s[i + k - 1] = sub[k]

\* Python: sub in s
Contains(s, sub) == \E i \in 1..(Len(s) + 1) : MatchAt(s, sub, i)

\* Python: s.startswith(sub)
StartsWith(s, sub) == MatchAt(s, sub, 1)

\* Python: s.rfind(sub), 1-based, for a sub that occurs in s
RFind(s, sub) ==
    CHOOSE i \in 1..(Len(s) + 1) :
        /\ MatchAt(s, sub, i)
        /\ \A j \in (i + 1)..(Len(s) + 1) : ~MatchAt(s, sub, j)

\* Python: s.rsplit(sep, 1)[0]
RSplitHead(s, sep) ==
    IF Contains(s, sep) THEN SubSeq(s, 1, RFind(s, sep) - 1) ELSE s

\* the characters matched by \s in a Python str pattern (ASCII part)
Whitespace == {" ", "\t", "\n", "\r", "\f"}

\* re.match(r'^\s+$', s) is not None
IsWhitespaceOnly(s) ==
    /\ Len(s) >= 1
    /\ \A i \in 1..Len(s) : s[i] \in Whitespace

\* a table without the entry for the backslash
EscapeCharNoBackslash(c) ==
    CASE c = "\"" -> <<"\\", "\"">>
      [] c = "\t" -> <<"\\", "t">>
      [] c = "\n" -> <<"\\", "n">>
      [] OTHER    -> <<c>>

\* one character through the ESCAPE table
EscapeChar(c) ==
    CASE c = "\"" -> <<"\\", "\"">>
      [] c = "\\" -> <<"\\", "\\">>
      [] c = "\t" -> <<"\\", "t">>
      [] c = "\n" -> <<"\\", "n">>
      [] OTHER    -> <<c>>

\* s.translate(ESCAPE)
RECURSIVE Escape(_)
Escape(s) ==
    IF s = <<>> THEN <<>> ELSE EscapeChar(Head(s)) \o Escape(Tail(s))

\* pathlib.Path(name).suffix for a single path component
Suffix(name) ==
    IF Contains(name, <<".">>)
    THEN LET i == RFind(name, <<".">>)
         IN  IF i > 1 /\ i < Len(name) THEN SubSeq(name, i, Len(name)) ELSE <<>>
    ELSE <<>>

(***************************************************************************)
(* Identifier extraction: the loop bodies of process_directory.            *)
(* yara_env is the record main builds; an accumulator acc carries the      *)
(* artifact's three sets and, as outcome, the branch the last body took.   *)
(***************************************************************************)
EmptyAcc == [strings |-> {}, functions |-> {}, variables |-> {}, outcome |-> "none"]

\* a loop body that keeps the strings of blanks
StringBodyKeepsBlank(s, acc, env) ==
    IF Len(s) < env.string_cutoff THEN [acc EXCEPT !.outcome = "short"]
    ELSE [acc EXCEPT !.strings = @ \cup {Escape(s)}, !.outcome = "string"]

\* lines 180-184 and 274-278: one string of a record
StringBody(s, acc, env) ==
    IF Len(s) < env.string_cutoff THEN [acc EXCEPT !.outcome = "short"]
    ELSE IF IsWhitespaceOnly(s) THEN [acc EXCEPT !.outcome = "whitespace"]
    ELSE [acc EXCEPT !.strings = @ \cup {Escape(s)}, !.outcome = "string"]

\* a cut at the last '@' only
ElfIdentifierNameSingleAt(name) ==
    IF Contains(name, <<"@">>) THEN RSplitHead(name, <<"@">>) ELSE name

\* lines 195-200: the name with its version suffix cut off
ElfIdentifierName(name) ==
    IF Contains(name, <<"@", "@">>) THEN RSplitHead(name, <<"@", "@">>)
    ELSE IF Contains(name, <<"@">>) THEN RSplitHead(name, <<"@">>)
    ELSE name

\* a denylist lookup that tests the name as the record gives it
ElfLowQualityRawName(name, identifier_name, role, env) ==
    name \in env.lq_identifiers.elf[role]

\* lines 202 and 206: identifier_name in yara_env['lq_identifiers']['elf'][role]
ElfLowQuality(name, identifier_name, role, env) ==
    identifier_name \in env.lq_identifiers.elf[role]

\* weak symbols dropped whatever the configuration says
WeakDroppedAlways(s, env) == s.binding = "weak"

\* lines 190-192: the weak symbols are ignored and this is one
WeakDropped(s, env) == env.ignore_weak_symbols /\ s.binding = "weak"

\* lines 188-208: one entry of the symbol table
ElfSymbolBody(s, acc, env) ==
    IF s.section_index = 0 THEN [acc EXCEPT !.outcome = "undefined"]
    ELSE IF WeakDropped(s, env) THEN [acc EXCEPT !.outcome = "weak"]
    ELSE IF Len(s.name) < env.identifier_cutoff THEN [acc EXCEPT !.outcome = "short"]
    ELSE LET identifier_name == ElfIdentifierName(s.name)
         IN  IF s.type = "func"
             THEN IF ElfLowQuality(s.name, identifier_name, "functions", env)
                  THEN [acc EXCEPT !.outcome = "lq"]
                  ELSE [acc EXCEPT !.functions = @ \cup {identifier_name}, !.outcome = "function"]
             ELSE IF s.type = "object"
             THEN IF ElfLowQuality(s.name, identifier_name, "variables", env)
                  THEN [acc EXCEPT !.outcome = "lq"]
                  ELSE [acc EXCEPT !.variables = @ \cup {identifier_name}, !.outcome = "variable"]
             ELSE [acc EXCEPT !.outcome = "othertype"]

Init_ == <<"<", "i", "n", "i", "t", ">">>
Clinit_ == <<"<", "c", "l", "i", "n", "i", "t", ">">>
AccessPrefix == <<"a", "c", "c", "e", "s", "s", "$">>

\* lines 269 and 287: name in yara_env['lq_identifiers']['dex'][role]
DexLowQuality(name, role, env) ==
    name \in env.lq_identifiers.dex[role]

\* a test that knows the instance constructor only
IsConstructorInitOnly(name) == name = Init_

\* line 265: method['name'] in ['<init>', '<clinit>']
IsConstructor(name) == name \in {Init_, Clinit_}

\* lines 261-271: one method name of a class
DexMethodBody(m, acc, env) ==
    IF Len(m.name) < env.identifier_cutoff THEN [acc EXCEPT !.outcome = "short"]
    ELSE IF IsWhitespaceOnly(m.name) THEN [acc EXCEPT !.outcome = "whitespace"]
    ELSE IF IsConstructor(m.name) THEN [acc EXCEPT !.outcome = "init"]
    ELSE IF StartsWith(m.name, AccessPrefix) THEN [acc EXCEPT !.outcome = "access"]
    ELSE IF DexLowQuality(m.name, "functions", env) THEN [acc EXCEPT !.outcome = "lq"]
    ELSE [acc EXCEPT !.functions = @ \cup {m.name}, !.outcome = "function"]

\* lines 282-289: one field name of a class
DexFieldBody(f, acc, env) ==
    IF Len(f.name) < env.identifier_cutoff THEN [acc EXCEPT !.outcome = "short"]
    ELSE IF IsWhitespaceOnly(f.name) THEN [acc EXCEPT !.outcome = "whitespace"]
    ELSE IF DexLowQuality(f.name, "variables", env) THEN [acc EXCEPT !.outcome = "lq"]
    ELSE [acc EXCEPT !.variables = @ \cup {f.name}, !.outcome = "variable"]

(***************************************************************************)
(* One artifact's record through the extraction, as the loops run it.      *)
(***************************************************************************)
RECURSIVE FoldStrings(_, _, _)
\* the loops at lines 179 and 273
FoldStrings(list, acc, env) ==
    IF list = <<>> THEN acc ELSE FoldStrings(Tail(list), StringBody(Head(list), acc, env), env)

RECURSIVE FoldSymbols(_, _, _)
\* the loop at line 187
FoldSymbols(list, acc, env) ==
    IF list = <<>> THEN acc ELSE FoldSymbols(Tail(list), ElfSymbolBody(Head(list), acc, env), env)

RECURSIVE FoldMethods(_, _, _)
\* the loop at line 259
FoldMethods(list, acc, env) ==
    IF list = <<>> THEN acc ELSE FoldMethods(Tail(list), DexMethodBody(Head(list), acc, env), env)

RECURSIVE FoldMethodStrings(_, _, _)
\* the loop at line 272
FoldMethodStrings(list, acc, env) ==
    IF list = <<>> THEN acc
    ELSE FoldMethodStrings(Tail(list), FoldStrings(Head(list).strings, acc, env), env)

RECURSIVE FoldFields(_, _, _)
\* the loop at line 280
FoldFields(list, acc, env) ==
    IF list = <<>> THEN acc ELSE FoldFields(Tail(list), DexFieldBody(Head(list), acc, env), env)

RECURSIVE FoldClasses(_, _, _)
\* the loop at line 258
FoldClasses(list, acc, env) ==
    IF list = <<>> THEN acc
    ELSE LET c == Head(list)
             a1 == FoldMethods(c.methods, acc, env)
             a2 == FoldMethodStrings(c.methods, a1, env)
             a3 == FoldFields(c.fields, a2, env)
         IN  FoldClasses(Tail(list), a3, env)

\* lines 175-208: the three sets of a symbol-table record
ElfIdentifiers(results_data, env) ==
    FoldSymbols(results_data.symbols, FoldStrings(results_data.strings, EmptyAcc, env), env)

\* lines 254-289: the three sets of a class/method/field record
DexIdentifiers(results_data, env) ==
    FoldClasses(results_data.classes, EmptyAcc, env)

(***************************************************************************)
(* generate_yara and the aggregate file.                                   *)
(***************************************************************************)
\* code point order of the characters the model uses
Ord(c) ==
    CASE c = "\t" -> 9   [] c = "\n" -> 10  [] c = " " -> 32   [] c = "\"" -> 34
      [] c = "$" -> 36   [] c = "-" -> 45   [] c = "." -> 46   [] c = "/" -> 47
      [] c = "0" -> 48   [] c = "<" -> 60   [] c = ">" -> 62   [] c = "@" -> 64
      [] c = "\\" -> 92  [] c = "_" -> 95   [] c = "a" -> 97   [] c = "b" -> 98
      [] c = "c" -> 99   [] c = "d" -> 100  [] c = "e" -> 101  [] c = "f" -> 102
      [] c = "i" -> 105
      [] c = "l" -> 108  [] c = "n" -> 110  [] c = "o" -> 111  [] c = "p" -> 112
      [] c = "q" -> 113  [] c = "r" -> 114  [] c = "s" -> 115  [] c = "t" -> 116
      [] c = "y" -> 121

RECURSIVE LexLess(_, _)
\* Python: s < t on str
LexLess(s, t) ==
    IF t = <<>> THEN FALSE
    ELSE IF s = <<>> THEN TRUE
    ELSE IF Head(s) = Head(t) THEN LexLess(Tail(s), Tail(t))
    ELSE Ord(Head(s)) < Ord(Head(t))

RECURSIVE Unsorted(_)
\* the elements in an order that is not the sorted one: largest first
Unsorted(S) ==
    IF S = {} THEN <<>>
    ELSE LET most == CHOOSE x \in S : \A y \in S \ {x} : LexLess(y, x)
         IN  <<most>> \o Unsorted(S \ {most})

RECURSIVE Sorted(_)
\* Python: sorted(S) for a set of str
Sorted(S) ==
    IF S = {} THEN <<>>
    ELSE LET least == CHOOSE x \in S : \A y \in S \ {x} : LexLess(x, y)
         IN  <<least>> \o Sorted(S \ {least})

YaraExt == <<".", "y", "a", "r", "a">>

\* line 62: "%s-%s.yara" % (metadata['package'], metadata['name'])
YaraFileName(package, name) == package \o <<"-">> \o name \o YaraExt

\* lines 76-79, 83-86, 90-93: the lines of one section, "$<section><counter> = <text>"
Section(section, sorted) ==
    [ k \in 1..Len(sorted) |-> [section |-> section, counter |-> k, text |-> sorted[k]] ]

\* lines 48-99: the file generate_yara writes, without its date and uuid
GenerateYara(metadata, functions, variables, strings, tags) ==
    [ path |-> [dir |-> "binary", name |-> YaraFileName(metadata.package, metadata.name)],
      content |-> [ meta |-> metadata,
                    tags |-> tags,
                    lines |-> Section("string", Sorted(strings))
                              \o Section("function", Sorted(functions))
                              \o Section("variable", Sorted(variables)) ] ]

RECURSIVE Range(_)
Range(seq) == IF seq = <<>> THEN {} ELSE {Head(seq)} \cup Range(Tail(seq))

\* an aggregate file with a line for each rule file written, in the order written
AggregateFileAsListed(package, names) ==
    [ path |-> [dir |-> "root", name |-> package \o YaraExt],
      content |-> [ package |-> package, includes |-> names ] ]

\* lines 305-310: the aggregate file of a package
AggregateFile(package, names) ==
    [ path |-> [dir |-> "root", name |-> package \o YaraExt],
      content |-> [ package |-> package, includes |-> Sorted(Range(names)) ] ]

(***************************************************************************)
(* State.                                                                  *)
(***************************************************************************)
VARIABLES
    \* inputs, fixed by Init
    result_directory,   \* the sub-directories of the result directory, in iterdir() order
    threads,            \* config['general']['threads']
    yara_env,           \* the yara_env record main builds
    entry,              \* the one table entry a single loop pass is given
    \* main
    main_pc,            \* where main is
    main_i,             \* index of the loop main is in
    started,            \* the processes main has started
    terminated,         \* the processes main has terminated, each with where it was
    \* shared between the processes
    yaraqueue,          \* the JoinableQueue: directories put and not yet got
    unfinished,         \* the queue's count of items put and not yet task_done
    processlock,        \* 0 when free, else the process holding it
    processed_files,    \* keys of the manager dict
    files,              \* the output directory: path -> content
    \* per process: the locals of process_directory
    pc,
    bang_directory,
    package_name,
    root_sha256,
    processed,
    yara_files,
    pos,                \* index in the scantree of the entry the loop at line 142 is at
    \* what has happened so far (history, not read by the program)
    popped,             \* per directory: the processes that got it, in order
    acked,              \* per directory: the processes that called task_done for it
    jobresult,          \* per directory: "none", "duplicate" or "finished"
    inserted,           \* the ledger insertions made: [hash, job]
    written,            \* the writes made: [path, job, worker, index], index being the
                        \* scantree position of the artifact, 0 for the aggregate
    \* one artifact's extraction, entry by entry
    kind,               \* "elf" or "dex"
    acc,                \* strings, functions, variables and the last branch taken
    versioned,          \* history: the last name consumed had an '@' in it
    entries             \* number of table entries consumed

inputVars == <<result_directory, threads, yara_env, entry>>
mainVars == <<main_pc, main_i, started, terminated>>
sharedVars == <<yaraqueue, unfinished, processlock, processed_files, files>>
workerVars == <<pc, bang_directory, package_name, root_sha256, processed, yara_files, pos>>
historyVars == <<popped, acked, jobresult, inserted, written>>
extractVars == <<kind, acc, versioned, entries>>
pipelineVars == <<mainVars, sharedVars, workerVars, historyVars>>
vars == <<inputVars, pipelineVars, extractVars>>

(***************************************************************************)
(* Inputs of the extraction.                                               *)
(***************************************************************************)
NameChars == {"a", "@"}
\* symbol names: every short name, and one with a version after a longer base
ElfNames == SeqsUpTo(NameChars, MaxNameLen) \cup { <<"a", "a", "@", "@", "a">> }
\* method and field names: every short name, the reserved names, blanks
DexNames ==
    SeqsUpTo(NameChars, MaxNameLen) \cup
    { Init_, Clinit_, AccessPrefix \o <<"0">>, <<" ", " ">> }

\* the denylisted names tried
DenyChoices == { {}, {<<"a">>} }
EmptyLq ==
    [elf |-> [functions |-> {}, variables |-> {}], dex |-> [functions |-> {}, variables |-> {}]]
\* line 365 (all lists empty) or the pickle of line 371 with one list filled
LqChoices ==
    {EmptyLq} \cup
    { [EmptyLq EXCEPT ![k][r] = d] : k \in {"elf", "dex"}, r \in {"functions", "variables"},
                                    d \in DenyChoices }

IgnoredSuffixes == { <<".", "o">>, <<".", "p", "_", "o">> }

\* lines 475-480
EnvChoices ==
    [ string_cutoff : {2},
      identifier_cutoff : 0..MaxCutoff,
      ignored_suffixes : {IgnoredSuffixes},
      ignore_weak_symbols : BOOLEAN,
      lq_identifiers : LqChoices,
      tags : {<<>>} ]

Symbols ==
    [ name : ElfNames, type : {"func", "object", "notype"},
      section_index : {0, 1}, binding : {"weak", "global"} ]
Methods == [ name : DexNames ]
Fields == [ name : DexNames ]

\* the values the pipeline's variables keep while one artifact is extracted
PipelineIdle ==
    /\ result_directory = <<>>
    /\ threads = 0
    /\ main_pc = "idle" /\ main_i = 0 /\ started = {} /\ terminated = {}
    /\ yaraqueue = <<>> /\ unfinished = 0 /\ processlock = 0
    /\ processed_files = {} /\ files = <<>>
    /\ pc = <<>> /\ bang_directory = <<>> /\ package_name = <<>> /\ root_sha256 = <<>>
    /\ processed = <<>> /\ yara_files = <<>> /\ pos = <<>>
    /\ popped = <<>> /\ acked = <<>> /\ jobresult = <<>> /\ inserted = {} /\ written = {}

\* no single entry is given: the run takes its entries as it goes
NoEntry == [table |-> "none"]

ExtractInit ==
    /\ PipelineIdle
    /\ yara_env \in EnvChoices
    /\ entry = NoEntry
    /\ kind \in {"elf", "dex"}
    /\ acc = EmptyAcc
    /\ versioned = FALSE
    /\ entries = 0

\* one pass of the loop at line 187
ElfSymbol(s) ==
    /\ kind = "elf"
    /\ entries < MaxEntries
    /\ acc' = ElfSymbolBody(s, acc, yara_env)
    /\ versioned' = Contains(s.name, <<"@">>)
    /\ entries' = entries + 1
    /\ UNCHANGED <<kind, inputVars, pipelineVars>>

\* one pass of the loop at line 259
DexMethod(m) ==
    /\ kind = "dex"
    /\ entries < MaxEntries
    /\ acc' = DexMethodBody(m, acc, yara_env)
    /\ versioned' = Contains(m.name, <<"@">>)
    /\ entries' = entries + 1
    /\ UNCHANGED <<kind, inputVars, pipelineVars>>

\* one pass of the loop at line 280
DexField(f) ==
    /\ kind = "dex"
    /\ entries < MaxEntries
    /\ acc' = DexFieldBody(f, acc, yara_env)
    /\ versioned' = Contains(f.name, <<"@">>)
    /\ entries' = entries + 1
    /\ UNCHANGED <<kind, inputVars, pipelineVars>>

ExtractNext ==
    \/ \E s \in Symbols : ElfSymbol(s)
    \/ \E m \in Methods : DexMethod(m)
    \/ \E f \in Fields : DexField(f)

ExtractSpec == ExtractInit /\ [][ExtractNext]_vars

(***************************************************************************)
(* One loop pass over one given entry of a fresh record: the loop bodies   *)
(* as functions of the entry and of yara_env.                              *)
(***************************************************************************)
StringChars == {"a", " ", "\"", "\\", "\t", "\n"}
\* the strings of a record: results_data['metadata']['strings'], method['strings']
Strings == SeqsUpTo(StringChars, MaxNameLen)

\* the symbol of the versioned-name scenario: 'foo@@GLIBC_2.2'
Foo == <<"f", "o", "o">>
FooVersioned == Foo \o <<"@", "@", "G", "L", "I", "B", "C", "_", "2", ".", "2">>

\* symbols with longer versioned names: '@@' and '@' several times over
VersionedSymbols ==
    [ name : { FooVersioned,
               <<"a", "@", "@", "@", "a">>,
               <<"a", "@", "a", "@", "@", "a">>,
               <<"a", "@", "@", "a", "@", "a">>,
               <<"a", "@", "a", "@", "a">> },
      type : {"func", "object", "notype"},
      section_index : {0, 1}, binding : {"weak", "global"} ]

\* the entry given, with the table it is in and the kind of its record
EntryChoices ==
    [ table : {"symbols"}, kind : {"elf"}, item : Symbols \cup VersionedSymbols ] \cup
    [ table : {"methods"}, kind : {"dex"}, item : Methods ] \cup
    [ table : {"fields"}, kind : {"dex"}, item : Fields ] \cup
    [ table : {"strings"}, kind : {"elf", "dex"}, item : Strings ]

\* lines 429-432 and 475-480: yara_env with string_cutoff as configured
EntryEnvChoices ==
    { [env EXCEPT !.string_cutoff = c] : env \in EnvChoices, c \in 0..MaxCutoff }

EntryInit ==
    /\ PipelineIdle
    /\ yara_env \in EntryEnvChoices
    /\ entry \in EntryChoices
    /\ kind = entry.kind
    /\ acc = EmptyAcc
    /\ versioned = FALSE
    /\ entries = 0

\* one pass of the loop at line 179
ElfString(s) ==
    /\ kind = "elf"
    /\ entries < MaxEntries
    /\ acc' = StringBody(s, acc, yara_env)
    /\ versioned' = Contains(s, <<"@">>)
    /\ entries' = entries + 1
    /\ UNCHANGED <<kind, inputVars, pipelineVars>>

\* one pass of the loop at line 273
DexMethodString(s) ==
    /\ kind = "dex"
    /\ entries < MaxEntries
    /\ acc' = StringBody(s, acc, yara_env)
    /\ versioned' = Contains(s, <<"@">>)
    /\ entries' = entries + 1
    /\ UNCHANGED <<kind, inputVars, pipelineVars>>

\* the pass over the given entry
EntryNext ==
    /\ entries = 0
    /\ \/ entry.table = "symbols" /\ ElfSymbol(entry.item)
       \/ entry.table = "methods" /\ DexMethod(entry.item)
       \/ entry.table = "fields" /\ DexField(entry.item)
       \/ entry.table = "strings" /\ ElfString(entry.item)
       \/ entry.table = "strings" /\ DexMethodString(entry.item)

EntrySpec == EntryInit /\ [][EntryNext]_vars

\* the given entry has been through its loop body
Passed(table) == entry.table = table /\ entries = 1

(***************************************************************************)
(* Claims on the extraction.                                               *)
(***************************************************************************)
\* C9: no function or variable name shorter than the configured identifier
\* cutoff is ever in an artifact's function or variable set (for symbol-table
\* records that is the base name left after the version suffix is cut off).
C9_NoShortIdentifier ==
    \A n \in acc.functions \cup acc.variables : Len(n) >= yara_env.identifier_cutoff

\* C10: no name on the denylist of the artifact's kind and of its role is ever
\* in the corresponding identifier set; for symbol-table records the name that
\* counts is the base name left after the version suffix is cut off.
C10_NoDenylisted ==
    /\ acc.functions \cap yara_env.lq_identifiers[kind].functions = {}
    /\ acc.variables \cap yara_env.lq_identifiers[kind].variables = {}

\* a symbol whose name carries a version suffix was dropped for its base name
\* being on the denylist
C10_Witness ==
    /\ kind = "elf"
    /\ versioned
    /\ acc.outcome = "lq"

\* the characters the rule grammar reads specially inside a string literal
Special == {"\"", "\\", "\t", "\n"}

RECURSIVE WellEscaped(_)
\* t has no special character outside a backslash escape
WellEscaped(t) ==
    IF t = <<>> THEN TRUE
    ELSE IF Head(t) = "\\"
    THEN /\ Len(t) >= 2
         /\ t[2] \in {"\"", "\\", "t", "n"}
         /\ WellEscaped(SubSeq(t, 3, Len(t)))
    ELSE Head(t) \notin Special /\ WellEscaped(Tail(t))

\* the character a backslash escape stands for
Escaped(c) == CASE c = "t" -> "\t" [] c = "n" -> "\n" [] OTHER -> c

RECURSIVE Unescape(_)
\* a well-escaped text read back the way the rule grammar reads it
Unescape(t) ==
    IF t = <<>> THEN <<>>
    ELSE IF Head(t) = "\\" THEN <<Escaped(t[2])>> \o Unescape(SubSeq(t, 3, Len(t)))
    ELSE <<Head(t)>> \o Unescape(Tail(t))

\* C11: an accepted string is stored in a form with no quote, backslash, tab
\* or newline outside a backslash escape, and that form read back is the
\* input string: each of the four characters was replaced by its escape and
\* every other character was left as it was.
C11_StoredStringEscaped ==
    (Passed("strings") /\ acc.outcome = "string") =>
        /\ Cardinality(acc.strings) = 1
        /\ \A t \in acc.strings :
               /\ WellEscaped(t)
               /\ Unescape(t) = entry.item
               /\ Len(t) = Len(entry.item)
                     + Cardinality({ i \in 1..Len(entry.item) : entry.item[i] \in Special })

\* a string with a backslash and a quote in it was accepted
C11_Witness ==
    /\ Passed("strings")
    /\ acc.outcome = "string"
    /\ entry.item = <<"\\", "\"">>

\* the separator a versioned name is cut at
VersionSeparator(name) ==
    IF \E i \in 1..Len(name) : MatchAt(name, <<"@", "@">>, i) THEN <<"@", "@">> ELSE <<"@">>

\* what stands before the last separator of a name that has one
BaseName(name) ==
    LET sep == VersionSeparator(name)
        heads == { SubSeq(name, 1, n) : n \in 0..Len(name) }
    IN  CHOOSE b \in heads :
            /\ MatchAt(name, sep, Len(b) + 1)
            /\ \A j \in (Len(b) + 2)..Len(name) : ~MatchAt(name, sep, j)

HasAt(name) == \E i \in 1..Len(name) : name[i] = "@"

\* C18: when a symbol whose name has an '@' in it is recorded, what is recorded
\* is the part of the name before its last '@@' (before its last '@' when it
\* has no '@@'), in the set its type names, and nothing else: no version part
\* is in either set. 'foo@@GLIBC_2.2' of type func, defined and not dropped
\* as weak, with cutoff 2 and an empty denylist, leaves the function set
\* {'foo'} and no variable.
C18_VersionedNameRecordsBase ==
    (Passed("symbols") /\ HasAt(entry.item.name)) =>
        LET s == entry.item
        IN  /\ acc.functions \cup acc.variables \subseteq {BaseName(s.name)}
            /\ acc.functions # {} => s.type = "func"
            /\ acc.variables # {} => s.type = "object"
            /\ (/\ s.name = FooVersioned /\ s.type = "func" /\ s.section_index # 0
                 /\ ~(s.binding = "weak" /\ yara_env.ignore_weak_symbols)
                 /\ yara_env.identifier_cutoff = 2
                 /\ yara_env.lq_identifiers = EmptyLq)
                    => (acc.functions = {Foo} /\ acc.variables = {})

\* 'foo@@GLIBC_2.2' went through with cutoff 2 and left 'foo'
C18_Witness ==
    /\ Passed("symbols")
    /\ entry.item.name = FooVersioned
    /\ yara_env.identifier_cutoff = 2
    /\ acc.functions = {Foo}

\* the method names left out whatever the configuration is
ReservedMethodName(name) ==
    \/ name = Init_
    \/ name = Clinit_
    \/ Len(name) >= Len(AccessPrefix) /\ SubSeq(name, 1, Len(AccessPrefix)) = AccessPrefix

\* C19: a method named '<init>' or '<clinit>', or with a name that starts
\* with 'access$', leaves the function set as it was, for every cutoff and
\* denylist; a field of such a name is recorded as a variable whenever it is
\* not shorter than the cutoff and not on the denylist for fields.
C19_ReservedMethodsExcluded ==
    /\ (Passed("methods") /\ ReservedMethodName(entry.item.name)) =>
           (acc.functions = {} /\ acc.variables = {})
    /\ (Passed("fields") /\ ReservedMethodName(entry.item.name)) =>
           (IF /\ Len(entry.item.name) >= yara_env.identifier_cutoff
               /\ entry.item.name \notin yara_env.lq_identifiers.dex.variables
            THEN acc.variables = {entry.item.name}
            ELSE acc.variables = {})

\* '<clinit>' went through as a method and was left out
C19_Witness ==
    /\ Passed("methods")
    /\ entry.item.name = Clinit_
    /\ acc.outcome = "init"
    /\ acc.functions = {}

\* an entry that is neither undefined nor weak would be recorded
Recordable(s) ==
    /\ s.section_index # 0
    /\ Len(s.name) >= yara_env.identifier_cutoff
    /\ s.type \in {"func", "object"}
    /\ LET base == IF HasAt(s.name) THEN BaseName(s.name) ELSE s.name
       IN  base \notin yara_env.lq_identifiers.elf[IF s.type = "func" THEN "functions"
                                                   ELSE "variables"]

\* C20: a symbol with section index 0 is not recorded; a weak symbol is not
\* recorded when ignore_weak_symbols is set; when it is not set, a weak symbol
\* is recorded exactly when a symbol of another binding is.
C20_UndefinedAndWeakDropped ==
    Passed("symbols") =>
        LET s == entry.item
            recorded == acc.functions \cup acc.variables # {}
        IN  /\ s.section_index = 0 => ~recorded
            /\ (s.binding = "weak" /\ yara_env.ignore_weak_symbols) => ~recorded
            /\ ~(s.binding = "weak" /\ yara_env.ignore_weak_symbols) =>
                   (recorded <=> Recordable(s))

\* a weak symbol was recorded, weak symbols not being ignored
C20_Witness ==
    /\ Passed("symbols")
    /\ entry.item.binding = "weak"
    /\ ~yara_env.ignore_weak_symbols
    /\ acc.functions # {}

\* the string has a character in it and all its characters are blanks
Blank(s) ==
    /\ s # <<>>
    /\ { s[i] : i \in 1..Len(s) } \subseteq {" ", "\t", "\n", "\r", "\f"}

\* C23: in a record of either kind, a string shorter than the configured
\* string cutoff, or made up of blanks only (one blank at least), is not put
\* in the string set; every other string is, in its escaped form, and no
\* string is put in the function or variable set.
C23_ShortAndBlankStringsDropped ==
    Passed("strings") =>
        LET s == entry.item
        IN  /\ acc.functions = {} /\ acc.variables = {}
            /\ IF Len(s) < yara_env.string_cutoff \/ Blank(s)
               THEN acc.strings = {}
               ELSE \E t \in acc.strings : acc.strings = {t} /\ WellEscaped(t) /\ Unescape(t) = s

\* a string of two blanks, as long as the cutoff asks, went through the loop
\* of a class record and was dropped
C23_Witness ==
    /\ Passed("strings")
    /\ kind = "dex"
    /\ entry.item = <<" ", "\t">>
    /\ yara_env.string_cutoff = 2
    /\ acc.strings = {}

(***************************************************************************)
(* Inputs of the pipeline: the result directory.                           *)
(* A package's scan results follow from its root file, so the scantree     *)
(* below the root entry and the result pickles are given per root hash.    *)
(***************************************************************************)
Entry(file, labels, sha) == [bang_file |-> file, labels |-> labels, sha256 |-> sha]

\* the scantree entries of the files unpacked from the root file
Unpacked(h) ==
    CASE h = "h1" -> << Entry(<<"a">>, {"elf"}, "s1"),
                        Entry(<<"b", ".", "o">>, {"elf"}, "s2") >>
      [] h = "h2" -> << Entry(<<"b", "/", "f">>, {"elf"}, "s3"),
                        Entry(<<"d">>, {"elf"}, "s6"),
                        Entry(<<"c">>, {"elf"}, "s5"),
                        Entry(<<"l", ".", "p", "_", "o">>, {"dex"}, "s4"),
                        Entry(<<"l", "/", "a">>, {"dex"}, "s4"),
                        Entry(<<"e">>, {"elf"}, "s7"),
                        Entry(<<"f">>, {"elf"}, "s1") >>
      [] OTHER    -> << Entry(<<"d">>, {"elf"}, "s6"),
                        Entry(<<"e">>, {"dex"}, "s8") >>

Sym(name, type) == [name |-> name, type |-> type, section_index |-> 1, binding |-> "global"]

NoRecord ==
    [readable |-> FALSE, metadata |-> FALSE, strings |-> <<>>, symbols |-> <<>>, classes |-> <<>>]

\* results/<sha256>.pickle
Results(sha) ==
    CASE sha = "s1" -> [NoRecord EXCEPT !.readable = TRUE, !.metadata = TRUE,
                            !.strings = << <<"a", "b">>, <<"a">> >>,
                            !.symbols = << Sym(<<"a", "a", "@", "@", "a">>, "func"),
                                           Sym(<<"a", "b">>, "object") >>]
      [] sha = "s2" -> [NoRecord EXCEPT !.readable = TRUE, !.metadata = TRUE,
                            !.symbols = << Sym(<<"b", "b">>, "func") >>]
      [] sha = "s3" -> [NoRecord EXCEPT !.readable = TRUE, !.metadata = TRUE,
                            !.strings = << <<"b", "a">>, <<"a", "b">> >>,
                            !.symbols = << Sym(<<"b", "b">>, "func"),
                                           Sym(<<"a", "b">>, "func") >>]
      [] sha = "s4" -> [NoRecord EXCEPT !.readable = TRUE, !.metadata = TRUE,
                            !.classes = << [methods |-> << [name |-> <<"a", "a">>,
                                                            strings |-> << <<"d", "d">> >>],
                                                           [name |-> Init_, strings |-> <<>>] >>,
                                            fields |-> << [name |-> <<"a", "b">>] >>] >>]
      [] sha = "s6" -> [NoRecord EXCEPT !.readable = TRUE]
      [] sha = "s7" -> [NoRecord EXCEPT !.readable = TRUE, !.metadata = TRUE,
                            !.strings = << <<"a">> >>,
                            !.symbols = << Sym(<<"a">>, "func") >>]
      [] sha = "s8" -> [NoRecord EXCEPT !.readable = TRUE, !.metadata = TRUE,
                            !.classes = << [methods |-> << [name |-> Init_,
                                                            strings |-> << <<" ", " ">> >>] >>,
                                            fields |-> << [name |-> <<"a">>] >>] >>]
      [] OTHER -> NoRecord

\* the packages tried: root file name and root hash
Packages == { <<<<"p">>, "h1">>, <<<<"p">>, "h2">>, <<<<"p">>, "h3">> }

\* a sub-directory whose bang.pickle has a root entry
Rooted(name, h) ==
    [ manifest |-> "ok",
      scantree |-> << Entry(name, {"root"}, h) >> \o Unpacked(h) ]

\* a sub-directory whose bang.pickle has no entry labelled root
Rootless ==
    [ manifest |-> "ok", scantree |-> << Entry(<<"a">>, {"elf"}, "s1") >> ]

\* the kinds of sub-directory: without bang.pickle, with one that does not
\* load, and with one that loads
Directories ==
    { [manifest |-> "none", scantree |-> <<>>],
      [manifest |-> "unreadable", scantree |-> <<>>],
      Rootless }
    \cup { Rooted(x[1], x[2]) : x \in Packages }

\* the yara_env of the pipeline runs: lines 429-452 with string_cutoff configured
PipelineEnv ==
    [ string_cutoff |-> 2,
      identifier_cutoff |-> 2,
      ignored_suffixes |-> IgnoredSuffixes,
      ignore_weak_symbols |-> FALSE,
      lq_identifiers |-> EmptyLq,
      tags |-> <<>> ]

(***************************************************************************)
(* One scantree entry through the body of the loop at line 142.            *)
(***************************************************************************)
\* pathlib.Path(bang_file).name
PathName(bang_file) ==
    IF Contains(bang_file, <<"/">>)
    THEN SubSeq(bang_file, RFind(bang_file, <<"/">>) + 1, Len(bang_file))
    ELSE bang_file

\* lines 160-167 and 244-249: the record loads and has a metadata section
RecordUsable(results_data) == results_data.readable /\ results_data.metadata

\* a worker that ignores no suffix
IgnoredNever(bang_file, env) == FALSE

\* lines 147-149 and 231-233: the suffix of the file is one of those ignored
Ignored(bang_file, env) == Suffix(PathName(bang_file)) \in env.ignored_suffixes

\* a worker that makes a rule of whatever it has
NoDataNever(ids) == FALSE

\* lines 217 and 292: there is no data to make a rule of
NoData(ids) == ids.strings = {} /\ ids.variables = {} /\ ids.functions = {}

\* lines 144-218 and 228-293: the three sets of one entry, and whether the
\* loop body gets as far as generate_yara (no continue is taken before it)
EntryIdentifiers(e, env) ==
    LET label == IF "elf" \in e.labels THEN "elf" ELSE IF "dex" \in e.labels THEN "dex" ELSE "none"
        results_data == Results(e.sha256)
        ids == IF label = "elf" THEN ElfIdentifiers(results_data, env)
               ELSE DexIdentifiers(results_data, env)
    IN  IF label = "none" THEN [emit |-> FALSE, label |-> label, ids |-> EmptyAcc]
        ELSE IF Ignored(e.bang_file, env)
        THEN [emit |-> FALSE, label |-> label, ids |-> EmptyAcc]
        ELSE IF ~RecordUsable(results_data)
        THEN [emit |-> FALSE, label |-> label, ids |-> EmptyAcc]
        ELSE [emit |-> ~NoData(ids), label |-> label, ids |-> ids]

\* a loop that an entry it skips ends
NextEmittingFirstOnly(scantree, i, env) ==
    IF i > Len(scantree) THEN 0
    ELSE IF EntryIdentifiers(scantree[i], env).emit THEN i
    ELSE 0

RECURSIVE NextEmitting(_, _, _)
\* the first entry at or after position i that makes generate_yara write,
\* or 0 when the loop ends without one
NextEmitting(scantree, i, env) ==
    IF i > Len(scantree) THEN 0
    ELSE IF EntryIdentifiers(scantree[i], env).emit THEN i
    ELSE NextEmitting(scantree, i + 1, env)

\* the loop at line 142 run on from position i through the entries it writes
\* nothing for: the position of the next entry it writes a file for, or the
\* position past the end
Advance(scantree, i, env) ==
    LET k == NextEmitting(scantree, i, env)
    IN  IF k = 0 THEN Len(scantree) + 1 ELSE k

\* lines 155-157, 225-226 and 239-241, 300-301: the file generate_yara writes
\* for an entry that gets that far
EntryFile(e, package, env) ==
    LET x == EntryIdentifiers(e, env)
        metadata == [name |-> PathName(e.bang_file), sha256 |-> e.sha256, package |-> package]
    IN  GenerateYara(metadata, x.ids.functions, x.ids.variables, x.ids.strings,
                     env.tags \o <<x.label>>)

\* an aggregate written whether or not a rule file was
AggregateAlways(names) == TRUE

\* line 304: yara_files != []
AggregateDue(names) == names # <<>>

\* the entries labelled root
Roots(scantree) == { k \in 1..Len(scantree) : "root" \in scantree[k].labels }

Least(S) == CHOOSE x \in S : \A y \in S : x <= y

(***************************************************************************)
(* main: lines 460-498.                                                    *)
(***************************************************************************)
\* a dispatcher that creates one process when told to create none
ProcsAtLeastOne == 1..Max(threads, 1)

\* range(0, threads), numbered from 1
Procs == 1..Max(threads, 0)
Dirs == 1..Len(result_directory)

Init ==
    /\ result_directory \in SeqsUpTo(Directories, MaxDirs)
    /\ threads \in (-1)..MaxThreads
    /\ yara_env = PipelineEnv
    /\ entry = NoEntry
    /\ main_pc = "walk" /\ main_i = 1 /\ started = {} /\ terminated = {}
    /\ yaraqueue = <<>> /\ unfinished = 0 /\ processlock = 0
    /\ processed_files = {} /\ files = <<>>
    /\ pc = [w \in Procs |-> "unstarted"]
    /\ bang_directory = [w \in Procs |-> 0]
    /\ package_name = [w \in Procs |-> <<>>]
    /\ root_sha256 = [w \in Procs |-> "unbound"]
    /\ processed = [w \in Procs |-> FALSE]
    /\ yara_files = [w \in Procs |-> <<>>]
    /\ pos = [w \in Procs |-> 0]
    /\ popped = [d \in Dirs |-> <<>>]
    /\ acked = [d \in Dirs |-> <<>>]
    /\ jobresult = [d \in Dirs |-> "none"]
    /\ inserted = {} /\ written = {}
    /\ kind = "none" /\ acc = EmptyAcc /\ versioned = FALSE /\ entries = 0

\* a walk that takes every sub-directory
HasManifestAlways(dir) == TRUE

\* lines 466-467: bang_pickle.exists()
HasManifest(dir) == dir.manifest # "none"

\* lines 465-470: one sub-directory of the walk
Walk ==
    /\ main_pc = "walk"
    /\ main_i <= Len(result_directory)
    /\ IF ~HasManifest(result_directory[main_i])
       THEN UNCHANGED <<yaraqueue, unfinished>>
       ELSE /\ yaraqueue' = Append(yaraqueue, main_i)
            /\ unfinished' = unfinished + 1
    /\ main_i' = main_i + 1
    /\ UNCHANGED <<main_pc, started, terminated, processlock, processed_files, files,
                   inputVars, workerVars, historyVars, extractVars>>

\* lines 483-488: the walk is over, the processes are created
CreateProcesses ==
    /\ main_pc = "walk"
    /\ main_i > Len(result_directory)
    /\ main_pc' = "start"
    /\ main_i' = 1
    /\ UNCHANGED <<started, terminated, sharedVars, inputVars, workerVars, historyVars,
                   extractVars>>

\* lines 491-492: every process is started. A process started before another
\* runs alone exactly as if the other were started and not yet scheduled.
StartProcesses ==
    /\ main_pc = "start"
    /\ pc' = [w \in Procs |-> "get"]
    /\ started' = Procs
    /\ main_pc' = "join"
    /\ UNCHANGED <<main_i, terminated, sharedVars, inputVars, bang_directory, package_name,
                   root_sha256, processed, yara_files, pos, historyVars, extractVars>>

\* a barrier that waits for the queue to be empty
JoinReturnsOnEmptyQueue == yaraqueue = <<>>

\* JoinableQueue.join(): returns when every item put has been task_done
JoinReturns == unfinished = 0

\* line 494: yaraqueue.join() returns
Join ==
    /\ main_pc = "join"
    /\ JoinReturns
    /\ main_pc' = "terminate"
    /\ main_i' = 1
    /\ UNCHANGED <<started, terminated, sharedVars, inputVars, workerVars, historyVars,
                   extractVars>>

\* lines 497-498: one process.terminate()
Terminate ==
    /\ main_pc = "terminate"
    /\ main_i \in Procs
    /\ terminated' = terminated \cup {[worker |-> main_i, was |-> pc[main_i]]}
    /\ pc' = [pc EXCEPT ![main_i] = "terminated"]
    /\ main_i' = main_i + 1
    /\ UNCHANGED <<main_pc, started, sharedVars, inputVars, bang_directory, package_name,
                   root_sha256, processed, yara_files, pos, historyVars, extractVars>>

\* main returns
Finish ==
    /\ main_pc = "terminate"
    /\ main_i \notin Procs
    /\ main_pc' = "done"
    /\ UNCHANGED <<main_i, started, terminated, sharedVars, inputVars, workerVars,
                   historyVars, extractVars>>

MainNext == Walk \/ CreateProcesses \/ StartProcesses \/ Join \/ Terminate \/ Finish

(***************************************************************************)
(* process_directory: lines 102-324, one action per step that another      *)
(* process can observe (queue, lock, ledger, output files).                *)
(***************************************************************************)
\* lines 107-124: get() returns a directory, its bang.pickle is loaded and
\* scanned for the entry labelled root. An unreadable pickle raises at line
\* 119 and ends the process.
Get(w) ==
    /\ pc[w] = "get"
    /\ yaraqueue # <<>>
    /\ LET d == Head(yaraqueue)
           dir == result_directory[d]
           roots == Roots(dir.scantree)
       IN  /\ yaraqueue' = Tail(yaraqueue)
           /\ bang_directory' = [bang_directory EXCEPT ![w] = d]
           /\ popped' = [popped EXCEPT ![d] = Append(@, w)]
           /\ yara_files' = [yara_files EXCEPT ![w] = <<>>]
           /\ processed' = [processed EXCEPT ![w] = FALSE]
           /\ IF dir.manifest = "unreadable"
              THEN /\ pc' = [pc EXCEPT ![w] = "crashed"]
                   /\ UNCHANGED <<package_name, root_sha256>>
              ELSE IF roots # {}
              THEN /\ package_name' =
                          [package_name EXCEPT ![w] = PathName(dir.scantree[Least(roots)].bang_file)]
                   /\ root_sha256' = [root_sha256 EXCEPT ![w] = dir.scantree[Least(roots)].sha256]
                   /\ pc' = [pc EXCEPT ![w] = "acquire_check"]
              ELSE /\ package_name' = [package_name EXCEPT ![w] = <<>>]
                   /\ UNCHANGED root_sha256
                   /\ pc' = [pc EXCEPT ![w] = "acquire_insert"]
    /\ UNCHANGED <<unfinished, processlock, processed_files, files, pos, acked, jobresult,
                   inserted, written, inputVars, mainVars, extractVars>>

\* an acquire() that does not wait for the holder
LockNeverBlocks == TRUE

\* lines 126 and 138: acquire() returns only when no process holds the lock
LockFree == processlock = 0

\* line 126: processlock.acquire()
AcquireCheck(w) ==
    /\ pc[w] = "acquire_check"
    /\ LockFree
    /\ processlock' = w
    /\ pc' = [pc EXCEPT ![w] = "check"]
    /\ UNCHANGED <<yaraqueue, unfinished, processed_files, files, bang_directory, package_name,
                   root_sha256, processed, yara_files, pos, historyVars, inputVars, mainVars,
                   extractVars>>

\* a worker that goes on whatever the check found
AfterCheckNoSkip(duplicate) == "acquire_insert"

\* a worker that drops a duplicate without acknowledging it
AfterCheckNoAck(duplicate) == IF duplicate THEN "get" ELSE "acquire_insert"

\* lines 134-138: a duplicate is acknowledged and dropped, anything else goes on
AfterCheck(duplicate) == IF duplicate THEN "skip" ELSE "acquire_insert"

\* lines 129-132: the ledger is read and the lock released
Check(w) ==
    /\ pc[w] = "check"
    /\ LET duplicate == root_sha256[w] \in processed_files
       IN  /\ processed' = [processed EXCEPT ![w] = duplicate]
           /\ pc' = [pc EXCEPT ![w] = AfterCheck(duplicate)]
           /\ jobresult' = [jobresult EXCEPT ![bang_directory[w]] =
                                IF duplicate THEN "duplicate" ELSE "admitted"]
    /\ processlock' = 0
    /\ UNCHANGED <<yaraqueue, unfinished, processed_files, files, bang_directory, package_name,
                   root_sha256, yara_files, pos, popped, acked, inserted, written, inputVars,
                   mainVars, extractVars>>

\* lines 135-136: the duplicate is acknowledged
SkipDuplicate(w) ==
    /\ pc[w] = "skip"
    /\ unfinished' = unfinished - 1
    /\ acked' = [acked EXCEPT ![bang_directory[w]] = Append(@, w)]
    /\ pc' = [pc EXCEPT ![w] = "get"]
    /\ UNCHANGED <<yaraqueue, processlock, processed_files, files, bang_directory, package_name,
                   root_sha256, processed, yara_files, pos, popped, jobresult, inserted,
                   written, inputVars, mainVars, extractVars>>

\* line 138: processlock.acquire()
AcquireInsert(w) ==
    /\ pc[w] = "acquire_insert"
    /\ LockFree
    /\ processlock' = w
    /\ pc' = [pc EXCEPT ![w] = "insert"]
    /\ UNCHANGED <<yaraqueue, unfinished, processed_files, files, bang_directory, package_name,
                   root_sha256, processed, yara_files, pos, historyVars, inputVars, mainVars,
                   extractVars>>

\* lines 139-140: the hash is put in the ledger and the lock released. When no
\* job of this process has had a root entry yet, root_sha256 is unbound: line
\* 139 raises and the process ends with the lock held.
Insert(w) ==
    /\ pc[w] = "insert"
    /\ IF root_sha256[w] = "unbound"
       THEN /\ pc' = [pc EXCEPT ![w] = "crashed"]
            /\ UNCHANGED <<processlock, processed_files, inserted, pos>>
       ELSE /\ processed_files' = processed_files \cup {root_sha256[w]}
            /\ inserted' = inserted \cup {[hash |-> root_sha256[w], job |-> bang_directory[w]]}
            /\ processlock' = 0
            /\ pos' = [pos EXCEPT ![w] =
                           Advance(result_directory[bang_directory[w]].scantree, 1,
                                   yara_env)]
            /\ pc' = [pc EXCEPT ![w] = "entries"]
    /\ UNCHANGED <<yaraqueue, unfinished, files, bang_directory, package_name, root_sha256,
                   processed, yara_files, popped, acked, jobresult, written, inputVars,
                   mainVars, extractVars>>

\* lines 142-302: the entry the loop is at has its rule file written, and the
\* loop runs on to the next entry it writes a file for
WriteRule(w) ==
    /\ pc[w] = "entries"
    /\ LET scantree == result_directory[bang_directory[w]].scantree
           k == pos[w]
       IN  /\ k <= Len(scantree)
           /\ LET f == EntryFile(scantree[k], package_name[w], yara_env)
              IN  /\ files' = (f.path :> f.content) @@ files
                  /\ yara_files' = [yara_files EXCEPT ![w] = Append(@, f.path.name)]
                  /\ written' = written \cup
                         {[path |-> f.path, job |-> bang_directory[w], worker |-> w,
                           index |-> k]}
                  /\ pos' = [pos EXCEPT ![w] = Advance(scantree, k + 1, yara_env)]
    /\ UNCHANGED <<yaraqueue, unfinished, processlock, processed_files, pc, bang_directory,
                   package_name, root_sha256, processed, popped, acked, jobresult, inserted,
                   inputVars, mainVars, extractVars>>

\* lines 304-310: the loop is over, and the aggregate file is written if any
\* rule file was
Aggregate(w) ==
    /\ pc[w] = "entries"
    /\ LET scantree == result_directory[bang_directory[w]].scantree
           f == AggregateFile(package_name[w], yara_files[w])
       IN  /\ pos[w] > Len(scantree)
           /\ IF AggregateDue(yara_files[w])
              THEN /\ files' = (f.path :> f.content) @@ files
                   /\ written' = written \cup
                          {[path |-> f.path, job |-> bang_directory[w], worker |-> w,
                            index |-> 0]}
              ELSE UNCHANGED <<files, written>>
    /\ jobresult' = [jobresult EXCEPT ![bang_directory[w]] = "finished"]
    /\ pc' = [pc EXCEPT ![w] = "task_done"]
    /\ UNCHANGED <<yaraqueue, unfinished, processlock, processed_files, bang_directory,
                   package_name, root_sha256, processed, yara_files, pos, popped, acked,
                   inserted, inputVars, mainVars, extractVars>>

\* line 324: yaraqueue.task_done()
TaskDone(w) ==
    /\ pc[w] = "task_done"
    /\ unfinished' = unfinished - 1
    /\ acked' = [acked EXCEPT ![bang_directory[w]] = Append(@, w)]
    /\ pc' = [pc EXCEPT ![w] = "get"]
    /\ UNCHANGED <<yaraqueue, processlock, processed_files, files, bang_directory, package_name,
                   root_sha256, processed, yara_files, pos, popped, jobresult, inserted,
                   written, inputVars, mainVars, extractVars>>

WorkerNext(w) ==
    /\ w \in Procs
    /\ \/ Get(w) \/ AcquireCheck(w) \/ Check(w) \/ SkipDuplicate(w) \/ AcquireInsert(w)
       \/ Insert(w) \/ WriteRule(w) \/ Aggregate(w) \/ TaskDone(w)

Next == MainNext \/ \E w \in 1..MaxThreads : WorkerNext(w)

Spec == Init /\ [][Next]_vars

\* main and every started process are scheduled by the operating system: none
\* is held back for ever while it can take a step
FairSpec ==
    /\ Spec
    /\ WF_vars(MainNext)
    /\ \A w \in 1..MaxThreads : WF_vars(WorkerNext(w))

(***************************************************************************)
(* Claims on the pipeline.                                                 *)
(***************************************************************************)
\* the directories main puts in the queue
Enqueued == { d \in Dirs : result_directory[d].manifest # "none" }

\* the root hash of a directory's manifest, "none" when it has no root entry
RootHashOf(d) ==
    LET scantree == result_directory[d].scantree
    IN  IF Roots(scantree) = {} THEN "none" ELSE scantree[Least(Roots(scantree))].sha256

\* the job went past the duplicate check and on to its entries
WentOn(d) == jobresult[d] \in {"admitted", "finished"}

AllReadable == \A d \in Dirs : result_directory[d].manifest # "unreadable"
AllRooted ==
    \A d \in Dirs : result_directory[d].manifest = "ok" => RootHashOf(d) # "none"

\* every enqueued job acknowledged, join() returned, every process terminated
RunComplete ==
    /\ main_pc = "done"
    /\ \A d \in Enqueued : acked[d] # <<>>
    /\ \A w \in Procs : pc[w] = "terminated"

\* C1: for every root hash, at most one job with that root hash goes on to be
\* processed, whatever the interleaving; every other one is skipped.
C1_AdmittedOncePerHash ==
    \A d1, d2 \in Dirs :
        (d1 # d2 /\ RootHashOf(d1) # "none" /\ RootHashOf(d1) = RootHashOf(d2))
            => ~(WentOn(d1) /\ WentOn(d2))

\* C2: with at least one worker and every manifest readable, the run reaches
\* the state where every job is acknowledged, join() has returned and the
\* workers are terminated. No behaviour of the pipeline is infinite, so under
\* fair scheduling that is: the run is never stuck short of that state.
C2_RunCompletes ==
    (threads >= 1 /\ AllReadable) => (RunComplete \/ ENABLED Next)

\* C3: an unreadable manifest aborts only its own job: with at least one
\* worker and every other manifest well-formed, the run is never stuck short
\* of main's return.
C3_UnreadableManifestDoesNotStopRun ==
    (threads >= 1 /\ ~AllReadable /\ AllRooted) => (main_pc = "done" \/ ENABLED Next)

\* C4: workers are terminated only once every enqueued job is acknowledged,
\* and every terminated worker was waiting in get(), not processing a job or
\* writing a file.
C4_TerminateOnlyWhenDrained ==
    /\ \A r \in terminated : r.was = "get"
    /\ main_pc \in {"terminate", "done"} =>
           /\ unfinished = 0
           /\ \A d \in Enqueued : Len(acked[d]) = 1
           /\ \A w \in Procs : pc[w] \in {"get", "terminated"}

\* workers were terminated after jobs that wrote files
C4_Witness ==
    /\ main_pc = "done"
    /\ Cardinality(terminated) >= 2
    /\ written # {}

Pops(w) == Cardinality({ d \in Dirs : popped[d] # <<>> /\ popped[d][1] = w })
Acks(w) == Cardinality({ d \in Dirs : acked[d] # <<>> /\ acked[d][1] = w })
HoldsJob(w) == pc[w] \notin {"unstarted", "get", "terminated"}

\* C5: a job is popped by at most one worker and acknowledged at most once, by
\* the worker that popped it and only after it was finished or skipped; a
\* worker is one pop ahead of its acknowledgements exactly while it holds a
\* job, never more; and when main returns every enqueued job has been popped
\* once and acknowledged once.
C5_PopProcessAck ==
    /\ \A d \in Dirs :
           /\ Len(popped[d]) <= 1
           /\ Len(acked[d]) <= 1
           /\ popped[d] # <<>> => d \in Enqueued
           /\ acked[d] # <<>> => (acked[d] = popped[d] /\ jobresult[d] \in {"duplicate", "finished"})
    /\ \A w \in Procs :
           /\ Acks(w) <= Pops(w)
           /\ Pops(w) <= Acks(w) + 1
           /\ (Pops(w) = Acks(w) + 1) <=> HoldsJob(w)
    /\ main_pc = "done" =>
           \A d \in Enqueued : Len(popped[d]) = 1 /\ Len(acked[d]) = 1

\* two workers shared the jobs of a finished run
C5_Witness ==
    /\ main_pc = "done"
    /\ \E d1, d2 \in Enqueued :
           /\ acked[d1] # <<>> /\ acked[d2] # <<>>
           /\ acked[d1] # acked[d2]

\* C6: a job whose root hash was found in the ledger writes no file, puts
\* nothing in the ledger, does not end its worker, and is acknowledged: its
\* worker is at the acknowledgement or past it.
C6_DuplicateIsNoOp ==
    \A d \in Dirs :
        jobresult[d] = "duplicate" =>
            /\ \A r \in written : r.job # d
            /\ \A r \in inserted : r.job # d
            /\ popped[d] # <<>>
            /\ \/ acked[d] = popped[d]
               \/ (pc[popped[d][1]] = "skip" /\ bang_directory[popped[d][1]] = d)

\* a duplicate was skipped and acknowledged while the first job's files exist
C6_Witness ==
    \E d \in Dirs : jobresult[d] = "duplicate" /\ acked[d] # <<>> /\ written # {}

(***************************************************************************)
(* The run with one worker, as a function of the input: the jobs one after *)
(* the other in queue order.                                               *)
(***************************************************************************)
RECURSIVE JobFiles(_, _, _, _, _)
\* lines 142-310 for one job: the files it writes, in order, from entry i on,
\* names being the yara_files gathered so far
JobFiles(scantree, i, package, env, names) ==
    LET k == NextEmitting(scantree, i, env)
    IN  IF k = 0
        THEN IF AggregateDue(names) THEN << AggregateFile(package, names) >> ELSE <<>>
        ELSE LET f == EntryFile(scantree[k], package, env)
             IN  <<f>> \o JobFiles(scantree, k + 1, package, env, Append(names, f.path.name))

RECURSIVE WriteAll(_, _)
\* the output directory after the writes of list, each replacing what was there
WriteAll(fs, list) ==
    IF list = <<>> THEN fs
    ELSE WriteAll((Head(list).path :> Head(list).content) @@ fs, Tail(list))

RECURSIVE SequentialRun(_, _, _, _)
\* lines 106-324 run by a single process over the queue; a job that ends the
\* process ends the run
SequentialRun(queue, ledger, root, fs) ==
    IF queue = <<>> THEN fs
    ELSE LET dir == result_directory[Head(queue)]
             roots == Roots(dir.scantree)
             package == IF roots = {} THEN <<>>
                        ELSE PathName(dir.scantree[Least(roots)].bang_file)
             hash == IF roots = {} THEN root ELSE dir.scantree[Least(roots)].sha256
         IN  IF dir.manifest = "unreadable" THEN fs
             ELSE IF roots # {} /\ hash \in ledger
             THEN SequentialRun(Tail(queue), ledger, hash, fs)
             ELSE IF hash = "unbound" THEN fs
             ELSE SequentialRun(Tail(queue), ledger \cup {hash}, hash,
                                WriteAll(fs, JobFiles(dir.scantree, 1, package, yara_env, <<>>)))

\* the queue as main fills it
QueueOrder == SelectSeq([d \in Dirs |-> d], LAMBDA d : d \in Enqueued)

\* C7: for a given input and config, the output files a finished run leaves
\* and their contents (date and uuid apart) are the same for every worker
\* count and every interleaving: they are those of the run with one worker.
C7_OutputIndependentOfSchedule ==
    main_pc = "done" => files = SequentialRun(QueueOrder, {}, "unbound", <<>>)

\* no package has two artifacts of the same file name
DistinctArtifactNames ==
    \A d \in Dirs :
        LET scantree == result_directory[d].scantree
            artifacts == { k \in 1..Len(scantree) : scantree[k].labels \cap {"elf", "dex"} # {} }
        IN  \A i, j \in artifacts :
                PathName(scantree[i].bang_file) = PathName(scantree[j].bang_file) => i = j

\* C8: when no package has two artifacts of the same name, no output path is
\* written by two different jobs or by two different workers.
C8_PathsWrittenOnce ==
    DistinctArtifactNames =>
        \A r1, r2 \in written :
            r1.path = r2.path => (r1.job = r2.job /\ r1.worker = r2.worker)

(***************************************************************************)
(* Claims on the jobs' artifacts and on the files written.                 *)
(***************************************************************************)
ScantreeOf(d) == result_directory[d].scantree

\* the scantree positions of a job's artifacts
Artifacts(d) ==
    { k \in 1..Len(ScantreeOf(d)) : ScantreeOf(d)[k].labels \cap {"elf", "dex"} # {} }

\* the three sets the record of an artifact gives under the run's yara_env
ArtifactSets(e) ==
    IF "elf" \in e.labels THEN ElfIdentifiers(Results(e.sha256), yara_env)
    ELSE DexIdentifiers(Results(e.sha256), yara_env)

AllSetsEmpty(e) ==
    LET ids == ArtifactSets(e)
    IN  ids.strings \cup ids.functions \cup ids.variables = {}

\* the record of the artifact is missing, does not load or has no metadata
RecordSkipped(e) == ~Results(e.sha256).readable \/ ~Results(e.sha256).metadata

\* the artifact is one a rule file is due for
RuleDue(e) ==
    /\ Suffix(PathName(e.bang_file)) \notin yara_env.ignored_suffixes
    /\ ~RecordSkipped(e)
    /\ ~AllSetsEmpty(e)

RuleWritten(d, k) == \E r \in written : r.job = d /\ r.index = k
AggregateWritten(d) == RuleWritten(d, 0)

\* the processes that hold job d
Holders(d) == { w \in Procs : bang_directory[w] = d /\ HoldsJob(w) }

\* the writes the step makes
NewWrites == written' \ written

\* the jobs the step ends the loop over the artifacts of
NewlyFinished == { d \in Dirs : jobresult'[d] = "finished" /\ jobresult[d] # "finished" }

\* every name in a worker's list of rule files is the name of a rule file that
\* worker wrote for the job it holds
ListedAreWritten ==
    \A d \in Dirs : \A w \in Holders(d) : \A i \in 1..Len(yara_files[w]) :
        \E r \in written :
            /\ r.job = d /\ r.worker = w /\ r.index # 0
            /\ r.path.name = yara_files[w][i]

\* a step writes a rule file only for an artifact with a non-empty set, and
\* when the loop ends the list is without the name of every artifact whose
\* sets are all empty (unless another artifact of the job has that name)
RuleFileStep ==
    /\ \A r \in NewWrites : r.index # 0 => ~AllSetsEmpty(ScantreeOf(r.job)[r.index])
    /\ \A d \in NewlyFinished : \A w \in Holders(d) : \A k \in Artifacts(d) :
           LET name(j) == YaraFileName(package_name[w], PathName(ScantreeOf(d)[j].bang_file))
           IN  (/\ AllSetsEmpty(ScantreeOf(d)[k])
                /\ \A j \in Artifacts(d) : name(j) = name(k) => AllSetsEmpty(ScantreeOf(d)[j]))
                   => \A i \in 1..Len(yara_files'[w]) : yara_files'[w][i] # name(k)

\* C12: a rule file is written for an artifact only when one of its three
\* sets is non-empty; every name in a worker's list of rule files is the name
\* of a rule file that worker wrote for its job; and the name of an artifact
\* whose sets are all empty is not in the list (unless it is also the name of
\* another artifact of the job).
C12_RuleFileOnlyWithData == []ListedAreWritten /\ [][RuleFileStep]_vars

\* a job with an artifact whose record gives three empty sets ran to its end
\* and wrote rule files for its other artifacts
C12_Witness ==
    \E d \in Dirs :
        /\ jobresult[d] = "finished"
        /\ \E k \in Artifacts(d) : ~RecordSkipped(ScantreeOf(d)[k]) /\ AllSetsEmpty(ScantreeOf(d)[k])
        /\ \E k \in Artifacts(d) : RuleWritten(d, k)

\* a finished job has an aggregate file exactly when it has a rule file, and a
\* job with an aggregate file is finished and writes no more
AggregateWithRuleFiles ==
    \A d \in Dirs :
        /\ jobresult[d] = "finished" =>
               (AggregateWritten(d) <=> \E k \in Artifacts(d) : RuleWritten(d, k))
        /\ AggregateWritten(d) =>
               /\ jobresult[d] = "finished"
               /\ \A w \in Holders(d) : pc[w] = "task_done"

\* the step that ends the loop writes the aggregate file exactly when a rule
\* file is due for one of the job's artifacts, every rule file due having
\* been written before; no other step writes one
AggregateStep ==
    /\ \A r \in NewWrites : r.index = 0 => r.job \in NewlyFinished
    /\ \A d \in NewlyFinished :
           /\ \A k \in Artifacts(d) : RuleDue(ScantreeOf(d)[k]) => RuleWritten(d, k)
           /\ (\E r \in NewWrites : r.job = d /\ r.index = 0)
                  <=> \E k \in Artifacts(d) : RuleDue(ScantreeOf(d)[k])
           /\ Cardinality({ r \in NewWrites : r.job = d }) <= 1

\* C13: a job that has run to its end has written an aggregate file exactly
\* when it has written a rule file; a job whose artifacts are all skipped or
\* empty writes none; the aggregate file is written only by the step that
\* ends the loop over the artifacts, when every rule file due has been
\* written, and the job writes nothing after it.
C13_AggregateIffRuleFile == []AggregateWithRuleFiles /\ [][AggregateStep]_vars

\* a job whose artifacts are all skipped or empty ran to its end, and so did
\* one that wrote its aggregate file
C13_Witness ==
    /\ \E d \in Dirs : jobresult[d] = "finished" /\ acked[d] # <<>> /\ ~AggregateWritten(d)
    /\ \E d \in Dirs : jobresult[d] = "finished" /\ AggregateWritten(d)

\* a job that got as far as its artifacts is acknowledged, or its worker is
\* alive in the loop over the artifacts or at the acknowledgement
NeverEndedByRecord ==
    \A d \in Dirs :
        (\E r \in inserted : r.job = d) =>
            \/ acked[d] # <<>>
            \/ \E w \in Holders(d) : pc[w] \in {"entries", "task_done"}

\* no step writes a rule file for an artifact whose record is skipped, and
\* when the loop ends every artifact a rule file is due for has one, those
\* after a skipped artifact included
SkipStep ==
    /\ \A r \in NewWrites : r.index # 0 => ~RecordSkipped(ScantreeOf(r.job)[r.index])
    /\ \A d \in NewlyFinished : \A k \in Artifacts(d) :
           IF RecordSkipped(ScantreeOf(d)[k]) THEN ~RuleWritten(d, k)'
           ELSE RuleDue(ScantreeOf(d)[k]) => RuleWritten(d, k)'

\* C14: an artifact whose record is missing, unreadable or without metadata
\* gets no rule file; a job that runs to its end has written the rule file of
\* every other artifact one is due for, those after the skipped one included;
\* and a job that got as far as its artifacts is never ended by a record: it
\* is acknowledged, or its worker is alive in the loop or at the
\* acknowledgement.
C14_SkippedArtifactOnly == []NeverEndedByRecord /\ [][SkipStep]_vars

\* a job was acknowledged after it skipped an artifact and wrote the rule file
\* of a later one
C14_Witness ==
    \E d \in Dirs :
        /\ acked[d] # <<>>
        /\ \E k1, k2 \in Artifacts(d) :
               k1 < k2 /\ RecordSkipped(ScantreeOf(d)[k1]) /\ RuleWritten(d, k2)

(***************************************************************************)
(* Claims on the ledger, the lock and the workers' locals.                 *)
(***************************************************************************)
\* the locals of process_directory in process w
Locals(w) ==
    <<pc[w], bang_directory[w], package_name[w], root_sha256[w], processed[w], yara_files[w],
      pos[w]>>

\* the processes between an acquire() and its release()
InCriticalSection == { w \in Procs : pc[w] \in {"check", "insert"} }

\* the jobs whose duplicate check has read the ledger: those with a root
\* entry, once the check has given its result
LedgerRead == { d \in Dirs : RootHashOf(d) # "none" /\ jobresult[d] # "none" }

\* never are two workers between acquire() and release()
OneInCriticalSection ==
    /\ Cardinality(InCriticalSection) <= 1
    /\ \A w \in InCriticalSection : processlock = w

\* the ledger is read and written only in a step of the worker that holds the
\* lock, and a step of a worker changes the locals of no other worker
LedgerStep ==
    /\ processed_files' # processed_files =>
           (processlock \in Procs /\ pc[processlock] = "insert"
              /\ pc'[processlock] # pc[processlock])
    /\ LedgerRead' # LedgerRead =>
           (processlock \in Procs /\ pc[processlock] = "check"
              /\ pc'[processlock] # pc[processlock])
    /\ mainVars' = mainVars =>
           Cardinality({ w \in Procs : Locals(w)' # Locals(w) }) <= 1

\* C15: the workers work on their own locals and on the ledger only (the
\* queue and the lock hand the jobs and the ledger over, the output files are
\* written and never read): a step of a worker changes the locals of no other
\* worker; the ledger is read and written only in a step of the worker that
\* holds the lock; and never are two workers between acquire() and release().
C15_LedgerUnderLock == []OneInCriticalSection /\ [][LedgerStep]_vars

\* a worker is about to write the ledger while another waits for the lock to
\* read it
C15_Witness ==
    \E w1, w2 \in Procs :
        /\ w1 # w2
        /\ pc[w1] = "insert" /\ root_sha256[w1] # "unbound"
        /\ pc[w2] = "acquire_check"

\* C16: the hash a job puts in the ledger is the root hash of the job's own
\* manifest, and the package name its files are named after is the root file
\* name of its own manifest (the empty name when it has no root entry):
\* nothing is left over from the worker's previous job.
C16_NoStateAcrossJobs ==
    /\ \A r \in inserted : r.hash = RootHashOf(r.job)
    /\ \A r \in written :
           LET scantree == ScantreeOf(r.job)
               package == IF Roots(scantree) = {} THEN <<>>
                          ELSE PathName(scantree[Least(Roots(scantree))].bang_file)
           IN  IF r.index = 0 THEN r.path.name = package \o YaraExt
               ELSE r.path.name = YaraFileName(package, PathName(scantree[r.index].bang_file))

(***************************************************************************)
(* Claims on the rule files.                                               *)
(***************************************************************************)
\* the place of a section in the file
Rank(section) == CASE section = "string" -> 1 [] section = "function" -> 2 [] OTHER -> 3

\* the texts of the lines of one section
TextsOf(lines, section) == { lines[i].text : i \in { j \in 1..Len(lines) : lines[j].section = section } }

RuleFiles == { path \in DOMAIN files : path.dir = "binary" }

\* the lines of the strings come first, then those of the functions, then
\* those of the variables; within a section the texts are in strictly
\* increasing lexical order and the k-th line has number k
WellOrdered(lines) ==
    /\ \A i, j \in 1..Len(lines) :
           i < j =>
               /\ Rank(lines[i].section) <= Rank(lines[j].section)
               /\ lines[i].section = lines[j].section =>
                      LexLess(lines[i].text, lines[j].text)
    /\ \A i \in 1..Len(lines) :
           lines[i].counter = Cardinality({ j \in 1..i : lines[j].section = lines[i].section })

\* the rule file a step writes is well ordered and its sections hold exactly
\* the three sets of the artifact it is written for
RenderStep ==
    \A r \in NewWrites :
        r.index # 0 =>
            LET lines == files'[r.path].lines
                ids == ArtifactSets(ScantreeOf(r.job)[r.index])
            IN  /\ WellOrdered(lines)
                /\ TextsOf(lines, "string") = ids.strings
                /\ TextsOf(lines, "function") = ids.functions
                /\ TextsOf(lines, "variable") = ids.variables

\* C17: in every rule file the lines of the strings come first, then those of
\* the functions, then those of the variables; within a section the texts are
\* in strictly increasing lexical order and the k-th line has number k; and
\* the texts of each section are exactly one of the three sets of the
\* artifact the file is written for, in whatever order the record listed them.
C17_SectionsSortedNumbered ==
    /\ [](\A path \in RuleFiles : WellOrdered(files[path].lines))
    /\ [][RenderStep]_vars

\* a rule file has two strings and two functions, which its record lists
\* largest first
C17_Witness ==
    \E path \in RuleFiles :
        LET lines == files[path].lines
        IN  /\ \E i \in 1..Len(lines) : lines[i].section = "string" /\ lines[i].counter = 2
            /\ \E i \in 1..Len(lines) : lines[i].section = "function" /\ lines[i].counter = 2

(***************************************************************************)
(* Claims on the ignored suffixes and on the aggregate file.               *)
(***************************************************************************)
\* text ends in tail, with something before it
EndsIn(text, tail) ==
    /\ Len(text) > Len(tail)
    /\ SubSeq(text, Len(text) - Len(tail) + 1, Len(text)) = tail

\* the extensions of the object files
ObjectExtensions == { <<".", "o">>, <<".", "p", "_", "o">> }

\* the file of the entry is named as an object file
HasIgnoredExtension(e) ==
    \E ext \in ObjectExtensions :
        \E n \in 1..Len(e.bang_file) :
            /\ EndsIn(SubSeq(e.bang_file, n, Len(e.bang_file)), ext)
            /\ \A j \in n..Len(e.bang_file) : e.bang_file[j] # "/"
            /\ n > 1 => e.bang_file[n - 1] = "/"

AggregateFiles == { path \in DOMAIN files : path.dir = "root" }

\* no rule file is written for an entry named as an object file, and no
\* aggregate file has a line for a rule file of such a name
NoRuleForIgnored ==
    /\ \A r \in written : r.index # 0 => ~HasIgnoredExtension(ScantreeOf(r.job)[r.index])
    /\ \A path \in AggregateFiles : \A i \in 1..Len(files[path].includes) :
           \A ext \in ObjectExtensions : ~EndsIn(files[path].includes[i], ext \o YaraExt)

\* the job's package is a native executable a rule file is due for and one
\* artifact named as an object file
TwoArtifactPackage(d) ==
    \E k1, k2 \in Artifacts(d) :
        /\ Artifacts(d) = {k1, k2} /\ k1 # k2
        /\ "elf" \in ScantreeOf(d)[k1].labels
        /\ ~HasIgnoredExtension(ScantreeOf(d)[k1])
        /\ RuleDue(ScantreeOf(d)[k1])
        /\ HasIgnoredExtension(ScantreeOf(d)[k2])

\* when the job of such a package ends it has written two files: the rule
\* file of the executable, and the aggregate file with one line, for that file
TwoArtifactStep ==
    \A d \in NewlyFinished :
        TwoArtifactPackage(d) =>
            LET mine == { r \in written' : r.job = d }
                rules == { r \in mine : r.index # 0 }
                aggregates == { r \in mine : r.index = 0 }
            IN  /\ Cardinality(rules) = 1
                /\ Cardinality(aggregates) = 1
                /\ \A r \in rules : \A a \in aggregates :
                       /\ ~HasIgnoredExtension(ScantreeOf(d)[r.index])
                       /\ r.path.dir = "binary" /\ a.path.dir = "root"
                       /\ r.path \in DOMAIN files'
                       /\ files'[a.path].includes = << r.path.name >>

\* C21: an entry whose file is named with an ignored extension gets no rule
\* file and no line in an aggregate file, whatever its record holds; the job
\* of a package of one native executable a rule file is due for and one such
\* entry writes exactly one rule file, that of the executable, and one
\* aggregate file whose only line is for that rule file.
C21_IgnoredSuffixNoRule == []NoRuleForIgnored /\ [][TwoArtifactStep]_vars

\* the job of the two-artifact package ran to its end and the object file,
\* whose record has a function in it, has no rule file
C21_Witness ==
    \E d \in Dirs :
        /\ jobresult[d] = "finished"
        /\ Cardinality(Artifacts(d)) = 2
        /\ AggregateWritten(d)
        /\ \E k \in Artifacts(d) :
               /\ HasIgnoredExtension(ScantreeOf(d)[k])
               /\ Results(ScantreeOf(d)[k].sha256).symbols # <<>>
               /\ ~RuleWritten(d, k)

\* the lines of every aggregate file are in strictly increasing lexical
\* order: sorted, and none twice
IncludesStrictlySorted ==
    \A path \in AggregateFiles :
        LET includes == files[path].includes
        IN  \A i, j \in 1..Len(includes) : i < j => LexLess(includes[i], includes[j])

\* the aggregate file a step writes has a line for every rule file name the
\* job has written a file of, and no other line
IncludeStep ==
    \A r \in NewWrites :
        r.index = 0 =>
            LET includes == files'[r.path].includes
                names == { x.path.name : x \in { y \in written : y.job = r.job /\ y.index # 0 } }
            IN  /\ { includes[i] : i \in 1..Len(includes) } = names
                /\ Len(includes) = Cardinality(names)
                /\ files'[r.path].package = package_name[r.worker]

\* C22: the aggregate file of a job has exactly one line for each distinct
\* name of a rule file the job wrote, the lines being in lexical order, and no
\* line twice when two artifacts gave the same file name.
C22_AggregateSortedDistinct == []IncludesStrictlySorted /\ [][IncludeStep]_vars

\* a job wrote three rule files, two of one name and the first not the least,
\* and its aggregate file has two lines
C22_Witness ==
    \E r \in written :
        /\ r.index = 0
        /\ Len(files[r.path].includes) = 2
        /\ Cardinality({ x \in written : x.job = r.job /\ x.index # 0 }) = 3
        /\ \E x, y \in written :
               /\ x.job = r.job /\ y.job = r.job
               /\ 0 < x.index /\ x.index < y.index
               /\ LexLess(y.path.name, x.path.name)

(***************************************************************************)
(* Claims on the lock and on the dispatcher.                               *)
(***************************************************************************)
\* C24: the lock is held only by a live worker between an acquire() and the
\* release() that follows it: never by a worker waiting in get(), reading a
\* record, writing a file or acknowledging a job, and never by a process that
\* has ended, so a worker waiting for the lock gets it.
C24_LockHeldOnlyInCriticalSection ==
    \A w \in Procs : processlock = w => pc[w] \in {"check", "insert"}

\* the times directory d has been put in the queue: it is in the queue or a
\* worker got it
TimesPut(d) ==
    Cardinality({ i \in 1..Len(yaraqueue) : yaraqueue[i] = d }) + Len(popped[d])

WorkersRun == \E w \in Procs : pc[w] # "unstarted"

\* a directory without a manifest is never put in the queue, one with a
\* manifest is put once when the walk passes it; no worker runs before the
\* walk is over, and then the count of unacknowledged jobs is that of the
\* directories with a manifest less the acknowledged ones
EnqueuedOnce ==
    /\ \A d \in Dirs :
           TimesPut(d) = IF result_directory[d].manifest = "none" THEN 0
                         ELSE IF main_pc = "walk" /\ main_i <= d THEN 0
                         ELSE 1
    /\ WorkersRun => main_pc \notin {"walk", "start"}
    /\ main_pc # "walk" =>
           unfinished = Cardinality({ d \in Dirs : result_directory[d].manifest # "none" })
                          - Cardinality({ d \in Dirs : acked[d] # <<>> })

\* once the workers run, a step leaves the queue as it is or takes its head,
\* and the count of unacknowledged jobs does not go up
DrainStep ==
    WorkersRun =>
        /\ yaraqueue' = yaraqueue \/ (yaraqueue # <<>> /\ yaraqueue' = Tail(yaraqueue))
        /\ unfinished' <= unfinished

\* C25: every sub-directory with a manifest is put in the queue exactly once
\* and one without is never put; the walk is over before a worker is started,
\* so once workers run nothing is added to the queue and the count of
\* unacknowledged jobs only goes down.
C25_EnqueueBeforeStart == []EnqueuedOnce /\ [][DrainStep]_vars

\* a directory without a manifest was passed over and the job of one with a
\* manifest has been acknowledged by a started worker
C25_Witness ==
    /\ WorkersRun
    /\ unfinished = 0
    /\ \E d \in Dirs : result_directory[d].manifest = "none" /\ popped[d] = <<>>
    /\ \E d \in Dirs : acked[d] # <<>>

\* C26: with a worker count of zero or less and a directory with a manifest,
\* no process is created or started, no job is got or acknowledged and no
\* file is written; main gets to join() and stays there: join() never
\* returns, no process is terminated and main never returns.
C26_NoWorkersNeverDrains ==
    (threads <= 0 /\ \E d \in Dirs : result_directory[d].manifest # "none") =>
        /\ started = {} /\ terminated = {} /\ DOMAIN pc = {}
        /\ \A d \in Dirs : popped[d] = <<>> /\ acked[d] = <<>> /\ jobresult[d] = "none"
        /\ written = {} /\ files = <<>>
        /\ main_pc \in {"walk", "start", "join"}
        /\ IF main_pc = "join"
           THEN unfinished > 0 /\ yaraqueue # <<>> /\ ~ENABLED Next
           ELSE ENABLED MainNext

\* main is in join() with two jobs in the queue and a negative worker count
C26_Witness ==
    /\ threads < 0
    /\ main_pc = "join"
    /\ unfinished = 2
    /\ Len(yaraqueue) = 2

====
